---- MODULE Spec2Model ----
(***************************************************************************)
(* A model of the quiz backend's attempt handling and grading:             *)
(*   - the student portal's generate_student_quiz / submit_student_quiz    *)
(*     over the student_attempts table (src/main.py, src/models.py);       *)
(*   - the individual portal's create_individual_quiz /                    *)
(*     start_individual_quiz / submit_individual_attempt over the quizzes, *)
(*     questions and attempts tables.                                      *)
(*   - clean_json_text, the repair of an LLM reply before json.loads;      *)
(*   - the user portal's generate_quiz over the quizzes and questions      *)
(*     tables;                                                             *)
(*   - the school administration's bulk_import_students / delete_student   *)
(*     over the students table (src/credential_generator.py).              *)
(*                                                                         *)
(* Conventions.  A nullable value is a sequence of length at most one:     *)
(* <<>> is Python's None / SQL NULL and <<x>> is the value x.  A Python    *)
(* string that the code trims or case-folds is a sequence of one-character *)
(* strings.  A float score is an integer number of hundredths.  The        *)
(* answers dictionary is a function over QIds whose value is <<>> where    *)
(* dict.get(key) returns None.  A Python None written to a nullable JSON   *)
(* column is taken to be read back as None and to be matched by the        *)
(* filter `column == None`.                                                *)
(***************************************************************************)
EXTENDS Integers, Sequences, FiniteSets, TLC

\* ------------------------------------------------------------------ bounds
\* Rows the student_attempts table may hold.
MaxAttempts == 2
\* Values the completion clock (datetime.utcnow() at a submit) may take.
MaxClock == 2
\* Quizzes the individual portal may hold.
MaxIQuizzes == 1
\* Rows the individual portal's attempts table may hold.
MaxIAttempts == 1
\* Rows of that table in the runs that follow repeated starts of one quiz.
MaxIStarts == 2
\* Rows of the students table.
MaxStudents == 3
\* Students of one bulk import request.
MaxImport == 2
\* The largest suffix a student_id is given.
MaxSuffixGiven == 4
\* Rows of the quizzes table that generate_quiz adds.
MaxUQuizzes == 2

\* ------------------------------------------------------------- fixed data
None == <<>>
Some(x) == <<x>>

Students == {1}
Quizzes == {1, 2}
QIds == {1, 2}
\* The request slots: slot 1 serves the non-overlapping runs, both overlap.
Procs == {1, 2}

\* Student.classroom_id.
StudentClassroom(s) == 1

\* SchoolQuiz.classroom_id: quiz 1 belongs to the student's classroom, quiz 2
\* to another one.
QuizClassroom(q) == q

\* SchoolQuiz.quiz_format values in use (free text from the creating form).
QuizFormats == {"Objective", "theory"}

\* Two generated question sets; a question is its id and correct_answer (the
\* one of QA is the empty string).
QA == << [id |-> 1, correct_answer |-> <<>>] >>
QB == << [id |-> 1, correct_answer |-> <<"b">>],
         [id |-> 2, correct_answer |-> <<"a", " ">>] >>

\* SchoolQuiz.questions values: None for a quiz made by create_school_quiz, a
\* stored {"questions": [...]} for a template quiz.
QuizTemplates == {None, Some(QB)}

\* What the generation LLM call can produce once cleaned and parsed: an
\* exception (no text, no JSON, json.loads failing), a document without the
\* "questions" key, or a "questions" list, which may be empty.
GenOutcomes ==
    { [kind |-> "raise", questions |-> <<>>],
      [kind |-> "no_key", questions |-> <<>>],
      [kind |-> "ok", questions |-> <<>>],
      [kind |-> "ok", questions |-> QA],
      [kind |-> "ok", questions |-> QB] }

\* Submitted answers (req.answers), by question id: {"1": ""} and
\* {"1": "b", "2": " A"}.
AnswerDicts ==
    { [i \in QIds |-> IF i = 1 THEN Some(<<>>) ELSE None],
      [i \in QIds |-> IF i = 1 THEN Some(<<"b">>) ELSE Some(<<" ", "A">>)] }

\* Raw entries of a grading response: id, an optional numeric score and an
\* optional boolean `correct`.
RawEntry(i, s, c) == [id |-> i, score |-> s, correct |-> c]

\* What the grading LLM call can produce: an exception, or a document whose
\* "results" (absent counts as []) is one of these lists.
EvalOutcomes ==
    { [kind |-> "raise", results |-> <<>>],
      [kind |-> "ok", results |-> <<>>],
      [kind |-> "ok", results |-> << RawEntry(1, None, Some(TRUE)),
                                     RawEntry(2, Some(50), None) >>] }

\* ------------------------------------------------------------------ state
VARIABLES
    backend,    \* "sqlite" or "postgresql": the engine database.py connects
    quiz_format,\* SchoolQuiz.quiz_format of the student's quiz
    quiz_questions, \* SchoolQuiz.questions of the student's quiz
    attempts,   \* the student_attempts table; a row's id is its position
    req,        \* per slot: the handler's position and local variables
    resp,       \* the last response a student-portal handler returned
    question_seq, \* the last id the questions table gave out
    iquizzes,   \* individual portal: quizzes, each the list of its questions
    iquiz_formats, \* individual portal: Quiz.quiz_format of each quiz
    iattempts,  \* individual portal: the attempts table
    iresp,      \* individual portal: the last response returned
    isubmit,    \* individual portal: what the last grading worked on
    google_api_key, \* Individual.google_api_key: None or the stored key
    user_google_api_key, \* User.google_api_key: None or the stored key
    uquizzes,   \* user portal: committed quizzes with their committed questions
    uresp,      \* user portal: the last response of generate_quiz
    students,   \* the students table, in the order of insertion
    year,       \* the year of the server's clock
    sresp,      \* the last response of bulk_import_students or delete_student
    reply,      \* the parts of an LLM reply handed to clean_json_text
    cleaned     \* what clean_json_text returned for it (None before the call)

vars == <<backend, quiz_format, quiz_questions, attempts, req, resp,
          question_seq, iquizzes, iquiz_formats, iattempts, iresp, isubmit,
          google_api_key, user_google_api_key, uquizzes, uresp, students,
          year, sresp, reply, cleaned>>
school == <<backend, quiz_format, quiz_questions>>
studentVars == <<school, attempts, req, resp>>
indivVars ==
    <<question_seq, iquizzes, iquiz_formats, iattempts, iresp, isubmit,
      google_api_key>>
cleanVars == <<reply, cleaned>>
userVars == <<user_google_api_key, uquizzes, uresp>>
importVars == <<students, year, sresp>>

\* ----------------------------------------------------------- pure helpers
\* str.lower() on one character.
LowerChar(c) == IF c = "A" THEN "a" ELSE IF c = "B" THEN "b" ELSE c

\* str.lower().
Lower(s) == [i \in 1..Len(s) |-> LowerChar(s[i])]

RECURSIVE LStrip(_)
LStrip(s) == IF s # <<>> /\ Head(s) = " " THEN LStrip(Tail(s)) ELSE s

RECURSIVE RStrip(_)
RStrip(s) ==
    IF s # <<>> /\ s[Len(s)] = " " THEN RStrip(SubSeq(s, 1, Len(s) - 1)) ELSE s

\* str.strip().
Strip(s) == RStrip(LStrip(s))

\* quiz.quiz_format.lower() for the formats in use.
FormatLower(f) == IF f = "Objective" THEN "objective" ELSE f

\* The formats submit_student_quiz grades locally.
ObjectiveFormats ==
    {"objective", "multiple-choice", "multiple_choice", "multiple choice",
     "true_false", "true or false"}

\* is_objective of submit_student_quiz.
IsObjective == FormatLower(quiz_format) \in ObjectiveFormats

RECURSIVE SumScores(_)
SumScores(rs) == IF rs = <<>> THEN 0 ELSE Head(rs).score[1] + SumScores(Tail(rs))

\* A score string "numerator/total": obtained is the numerator printed, in
\* hundredths, and as_int tells that it is printed as an int ("2", not "2.0").
ScoreString(obtained, total, as_int) ==
    [obtained |-> obtained, total |-> total, as_int |-> as_int]

\* f"{correct_count}/{n}" for the int correct_count.
CountScore(correct_count, n) == ScoreString(100 * correct_count, n, TRUE)

\* round(x, 2): the scores of the model have two decimals at most.
Round2(x) == x

\* The display score with the is_integer test left out: always the float.
DisplayScoreAsFloat(total_obtained, n) ==
    ScoreString(Round2(total_obtained), n, FALSE)

\* display_score: int(total_obtained) if total_obtained.is_integer() else
\* round(total_obtained, 2), over len(results).
DisplayScore(total_obtained, n) ==
    IF total_obtained % 100 = 0
    THEN ScoreString(100 * (total_obtained \div 100), n, TRUE)
    ELSE ScoreString(Round2(total_obtained), n, FALSE)

\* correct_count: the entries graded correct.
CorrectCount(rs) == Cardinality({i \in 1..Len(rs) : rs[i].correct = Some(TRUE)})

\* The comparison of the objective branch: both values truthy and equal once
\* trimmed and case-folded.
MatchesExactly(student_answer, correct_answer) ==
    /\ student_answer # None
    /\ student_answer[1] # <<>>
    /\ correct_answer # <<>>
    /\ Lower(Strip(student_answer[1])) = Lower(Strip(correct_answer))

\* The objective branch of submit_student_quiz: one entry per stored question.
ObjectiveResults(questions, answers) ==
    [i \in 1..Len(questions) |->
        LET q == questions[i]
            is_correct == MatchesExactly(answers[q.id], q.correct_answer)
        IN  [id |-> q.id,
             correct |-> Some(is_correct),
             score |-> Some(IF is_correct THEN 100 ELSE 0),
             feedback |-> IF is_correct THEN "Correct!" ELSE "Incorrect"]]

\* evaluation of the objective branch: score "correct_count/len(questions)".
ObjectiveEvaluation(questions, answers) ==
    LET rs == ObjectiveResults(questions, answers)
    IN  [score |-> CountScore(CorrectCount(rs), Len(questions)),
         results |-> rs]

\* The loop over the grader's results without its last line, which sets
\* `correct` from the score.
ScoredResultsKeepCorrect(raw) ==
    [i \in 1..Len(raw) |->
        LET r == raw[i]
            s == IF r.score # None THEN r.score[1]
                 ELSE IF r.correct # None /\ r.correct[1] THEN 100 ELSE 0
        IN  [id |-> r.id, correct |-> r.correct, score |-> Some(s),
             feedback |-> "ai"]]

\* The loop over the grader's results: a missing score is derived from
\* `correct`, and `correct` is then set to score >= 0.5.
ScoredResults(raw) ==
    [i \in 1..Len(raw) |->
        LET r == raw[i]
            s == IF r.score # None THEN r.score[1]
                 ELSE IF r.correct # None /\ r.correct[1] THEN 100 ELSE 0
        IN  [id |-> r.id, correct |-> Some(s >= 50), score |-> Some(s),
             feedback |-> "ai"]]

\* evaluation of the AI branch: score "total_obtained/len(results)".
AiEvaluation(raw) ==
    LET rs == ScoredResults(raw)
    IN  [score |-> DisplayScore(SumScores(rs), Len(rs)),
         results |-> rs]

\* ------------------------------------------------------ student_attempts
\* The student's attempts for the quiz with the student_id filter left out.
MatchingAnyStudent(s, q) == {i \in 1..Len(attempts) : attempts[i].quiz = q}

\* The student's attempts for the quiz.
Matching(s, q) ==
    {i \in 1..Len(attempts) : attempts[i].student = s /\ attempts[i].quiz = q}

\* The rows the filter `answers == None` keeps.
Pending(s, q) == {i \in Matching(s, q) : attempts[i].answers = None}

Completed(s, q) == Matching(s, q) \ Pending(s, q)

\* The pending-attempt query with its `answers == None` filter left out.
ExistingAttemptAnyState(s, q) == IF Matching(s, q) = {} THEN {0} ELSE Matching(s, q)

\* The pending-attempt query finding nothing.
ExistingAttemptNever(s, q) == {0}

\* .first() of the pending-attempt query, which states no order: any pending
\* row, or 0 for None.
ExistingAttemptChoices(s, q) == IF Pending(s, q) = {} THEN {0} ELSE Pending(s, q)

\* The reuse test with the question test inverted.
ReusesExistingInverted(e) == e # 0 /\ attempts[e].questions = <<>>

\* `existing_attempt and existing_attempt.questions`: the early return.
ReusesExisting(e) == e # 0 /\ attempts[e].questions # <<>>

\* The question set of a submit with the template fallback left out.
SubmitQuestionsNoTemplate(e) == IF e # 0 THEN attempts[e].questions ELSE <<>>

\* The question set a submit grades: the attempt's own, or the quiz template's
\* when there is no attempt.
SubmitQuestions(e) ==
    IF e # 0 THEN attempts[e].questions
    ELSE IF quiz_questions # None THEN quiz_questions[1]
    ELSE <<>>

NullAt(S) == {i \in S : attempts[i].completed_at = None}

Latest(S) ==
    {i \in S : /\ attempts[i].completed_at # None
               /\ \A j \in S : attempts[j].completed_at # None =>
                      attempts[j].completed_at[1] <= attempts[i].completed_at[1]}

\* .order_by(completed_at.desc()).first(): PostgreSQL sorts NULL first in a
\* descending order and SQLite sorts it last; rows that tie come in any order.
LatestAttemptChoices(s, q) ==
    LET S == Matching(s, q)
    IN  IF S = {} THEN {0}
        ELSE IF backend = "postgresql"
             THEN (IF NullAt(S) # {} THEN NullAt(S) ELSE Latest(S))
             ELSE (IF Latest(S) # {} THEN Latest(S) ELSE NullAt(S))

RECURSIVE MaxOf(_)
MaxOf(S) == IF S = {} THEN 0
            ELSE LET x == CHOOSE y \in S : TRUE
                     m == MaxOf(S \ {x})
                 IN  IF x > m THEN x ELSE m

\* datetime.utcnow() at a commit: later than every stored completion time.
UtcNow ==
    1 + MaxOf({attempts[i].completed_at[1] :
                  i \in {j \in 1..Len(attempts) : attempts[j].completed_at # None}})

IdleReq ==
    [pc |-> "idle", student |-> 0, quiz |-> 0, existing |-> 0,
     questions |-> <<>>, answers |-> [i \in QIds |-> None]]

NoResp ==
    [op |-> "none", student |-> 0, quiz |-> 0, status |-> 0, attempt_id |-> 0,
     llm |-> FALSE]

\* A response: the handler and its principal and quiz, the HTTP status, the
\* attempt_id returned (0 in an error) and whether the handler issued an LLM
\* call.  The questions a generate returns are those of the attempt named.
Response(op, s, q, status, id, llm) ==
    [op |-> op, student |-> s, quiz |-> q, status |-> status,
     attempt_id |-> id, llm |-> llm]

\* A new student_attempts row.
AttemptRow(s, q, questions, answers, score, feedback, completed_at) ==
    [student |-> s, quiz |-> q, questions |-> questions, answers |-> answers,
     score |-> score, feedback |-> feedback, completed_at |-> completed_at]

\* The closing write of submit_student_quiz: the attempt found is updated in
\* place, and a completed one is created when none was found.
SubmitWrite(s, q, existing, questions, answers, evaluation) ==
    IF existing # 0
    THEN [attempts EXCEPT ![existing].score = Some(evaluation.score),
                          ![existing].answers = Some(answers),
                          ![existing].feedback = Some(evaluation.results),
                          ![existing].completed_at = Some(UtcNow)]
    ELSE Append(attempts,
                AttemptRow(s, q, questions, Some(answers), Some(evaluation.score),
                           Some(evaluation.results), Some(UtcNow)))

\* The closing write of generate_student_quiz made to look for a pending
\* attempt again before it inserts one.
GenerateWriteRechecked(s, q, existing, questions) ==
    LET e == IF existing # 0 THEN existing
             ELSE IF Pending(s, q) # {} THEN CHOOSE i \in Pending(s, q) : TRUE
             ELSE 0
    IN  IF e # 0
        THEN [attempts EXCEPT ![e].questions = questions]
        ELSE Append(attempts, AttemptRow(s, q, questions, None, None, None, None))

\* The closing write of generate_student_quiz: the pending attempt found
\* gets the new questions, and a pending one is created when none was found.
GenerateWrite(s, q, existing, questions) ==
    IF existing # 0
    THEN [attempts EXCEPT ![existing].questions = questions]
    ELSE Append(attempts, AttemptRow(s, q, questions, None, None, None, None))

\* A classmate of the students who send requests.
Classmates == {2}

\* The student_attempts table before the first request: empty, or holding an
\* attempt of a classmate for the quiz of the classroom, pending or completed.
InitialAttempts ==
    {<<>>} \cup
    UNION { IF QuizClassroom(q) # StudentClassroom(c) THEN {}
            ELSE { << AttemptRow(c, q, QB, None, None, None, None) >>,
                   << AttemptRow(c, q, QB, Some([i \in QIds |-> Some(<<"b">>)]),
                                 Some(CountScore(1, 2)), Some(<<>>), Some(0)) >> } :
            c \in Classmates, q \in Quizzes }

\* The write of generate_student_quiz made before the LLM call, whatever the
\* call gives.
GenerateWritesBeforeCall(o) == TRUE

\* The write of generate_student_quiz follows the try block, whose except
\* clause raises the 500: it is reached only with a parsed reply.
GenerateReachesWrite(o) == o.kind = "ok"

\* ------------------------------------------------------ individual portal
\* Ids the questions table has given out before the first quiz of the
\* individual: the table also holds the questions of other users' quizzes.
QuestionSeqStarts == {0, 1, 100}

\* What generate_quiz_questions_ai returns: [] when the call or the parse
\* raises or the document has no questions, else the parsed list; a parsed
\* question is kept here by its correct_answer ('' when the key is missing).
IGenOutcomes == { <<>>, << <<"A">> >>, << <<"b">>, <<>> >> }

\* The Question rows create_individual_quiz adds for a parsed list.
QuestionRows(parsed, seq) ==
    [i \in 1..Len(parsed) |-> [id |-> seq + i, correct_answer |-> parsed[i]]]

\* Submitted answers of the individual portal: req.answers.get(str(q.id), "")
\* for every question id.
IAnswerDicts == { [i \in {0} |-> <<>>], [i \in {0} |-> <<" ", "a">>] }

UserAnswer(answers, qid) == answers[0]

\* "results" of the grader for the stored questions qs: none, the stored ids
\* echoed (the second entry with the score 1.5), or ids renumbered from 1 with
\* one entry too many.
IEvalResults(qs) ==
    { <<>>,
      [i \in 1..Len(qs) |->
          RawEntry(qs[i].id, Some(IF i = 1 THEN 100 ELSE 150), None)],
      [i \in 1..(Len(qs) + 1) |->
          IF i = 1 THEN RawEntry(i, None, Some(TRUE))
          ELSE IF i = 2 THEN RawEntry(i, Some(50), None)
          ELSE RawEntry(i, None, Some(FALSE))] }

\* evaluate_submission_ai: the scored results, or no results when the call,
\* the parse or the scoring raises (there is no key, the results are empty
\* and int has no is_integer, ...).
EvaluateSubmissionAi(raw_or_raise) ==
    IF raw_or_raise = None THEN <<>> ELSE ScoredResults(raw_or_raise[1])

\* An entry of the feedback list: user_answer and correct_answer are None
\* where the key is absent.
FeedbackItem(id, correct, score, user_answer, correct_answer, feedback) ==
    [id |-> id, correct |-> correct, score |-> score,
     user_answer |-> user_answer, correct_answer |-> correct_answer,
     feedback |-> feedback]

\* The fallback grading of submit_individual_attempt.
FallbackFeedback(qs, answers) ==
    [i \in 1..Len(qs) |->
        LET ua == UserAnswer(answers, qs[i].id)
            is_correct == Lower(Strip(ua)) = Lower(Strip(qs[i].correct_answer))
        IN  FeedbackItem(qs[i].id, Some(is_correct),
                         Some(IF is_correct THEN 100 ELSE 0),
                         Some(ua), Some(qs[i].correct_answer),
                         IF is_correct THEN "Correct" ELSE "Incorrect")]

\* The position of the first question whose id is `id`, or 0.
IndexOfId(qs, id) ==
    IF \E i \in 1..Len(qs) : qs[i].id = id
    THEN CHOOSE i \in 1..Len(qs) :
            qs[i].id = id /\ \A j \in 1..(i - 1) : qs[j].id # id
    ELSE 0

\* The correlation loop without its positional fallback.
CorrelateByIdOnly(items, qs, answers) ==
    [i \in 1..Len(items) |->
        LET item == items[i]
            m == IndexOfId(qs, item.id)
        IN  IF m = 0 THEN item
            ELSE [item EXCEPT
                    !.user_answer = IF @ = None
                                    THEN Some(UserAnswer(answers, qs[m].id)) ELSE @,
                    !.correct_answer = IF @ = None
                                       THEN Some(qs[m].correct_answer) ELSE @,
                    !.id = qs[m].id]]

\* The correlation loop: an item is matched to a question by id, else by its
\* position; a matched item gets the question's id and the missing
\* user_answer and correct_answer, an unmatched one stays as it is.
Correlate(items, qs, answers) ==
    [i \in 1..Len(items) |->
        LET item == items[i]
            byId == IndexOfId(qs, item.id)
            m == IF byId # 0 THEN byId ELSE IF i <= Len(qs) THEN i ELSE 0
        IN  IF m = 0 THEN item
            ELSE [item EXCEPT
                    !.user_answer = IF @ = None
                                    THEN Some(UserAnswer(answers, qs[m].id)) ELSE @,
                    !.correct_answer = IF @ = None
                                       THEN Some(qs[m].correct_answer) ELSE @,
                    !.id = qs[m].id]]

\* The items of the grader's results, which carry no answers yet.
AiItems(rs) ==
    [i \in 1..Len(rs) |->
        FeedbackItem(rs[i].id, rs[i].correct, rs[i].score, None, None, rs[i].feedback)]

NoIResp ==
    [op |-> "none", status |-> 0, attempt_id |-> 0, fallback |-> FALSE,
     llm |-> FALSE]

\* The inputs of a grading in submit_individual_attempt: req.answers, the
\* "results" of the grader's reply (None when the call raised) and the
\* "results" evaluate_submission_ai returned.
ISubmit(answers, raw, ai_results) ==
    [answers |-> answers, raw |-> raw, ai_results |-> ai_results]

NoISubmit == ISubmit([i \in {0} |-> <<>>], None, <<>>)

\* The nullable column Individual.google_api_key.
ApiKeys == {None, Some("key")}

\* The key the individual portal hands to the LLM helpers: the stored key,
\* or the literal "AI-dummy-key" when none is stored.
ApiKeyToUse(stored) == IF stored = None THEN "AI-dummy-key" ELSE stored[1]

\* evaluate_submission_ai returns without a call only for a falsy api_key.
IssuesGradingCall(api_key) == api_key # ""

\* A response of the individual portal; fallback tells that the fallback
\* grading ran, llm that the handler issued an LLM call.
IResponse(op, status, id, fallback, llm) ==
    [op |-> op, status |-> status, attempt_id |-> id, fallback |-> fallback,
     llm |-> llm]

\* ------------------------------------------------------------ generate_quiz
\* A parsed question entry is a function on the keys it has.
QuestionKeys == {"question", "options", "correct_answer"}

\* An entry that has exactly the keys of present.
Entry(present) == [k \in present |-> Some(k)]

\* What the try block of generate_quiz leaves: an exception of the call or of
\* json.loads, or the "questions" of the parsed document.
UGenOutcomes ==
    { [kind |-> "raise", questions |-> <<>>],
      [kind |-> "ok", questions |-> <<>>],
      [kind |-> "ok", questions |-> << Entry(QuestionKeys) >>],
      [kind |-> "ok", questions |-> << Entry(QuestionKeys),
                                       Entry({"question", "correct_answer"}) >>],
      [kind |-> "ok", questions |-> << Entry({"options", "correct_answer"}),
                                       Entry(QuestionKeys) >>],
      [kind |-> "ok", questions |-> << Entry({"question", "options"}) >>] }

\* q["question"] and q["options"] raise KeyError for an entry without the key.
UserRowRaises(q) == ~({"question", "options"} \subseteq DOMAIN q)

\* The Question row generate_quiz builds for an entry.
UserQuestionRow(q) ==
    [text |-> q["question"], options |-> q["options"], correct_answer |-> ""]

\* The rows the loop of generate_quiz commits: the commit follows the loop,
\* so an entry that raises leaves none of the rows added before it.
UserQuestionRows(questions) ==
    IF \E i \in 1..Len(questions) : UserRowRaises(questions[i])
    THEN <<>>
    ELSE [i \in 1..Len(questions) |-> UserQuestionRow(questions[i])]

\* GenerateQuizRequest.format.
UQuizFormats == {"objective", "theory", "fill_in_the_blank"}

\* A committed Quiz row with the Question rows committed for it.
UQuiz(format, questions) == [quiz_format |-> format, questions |-> questions]

NoUResp == [op |-> "none", status |-> 0, llm |-> FALSE, parsed |-> None]

\* A response of generate_quiz; parsed is the question list the storing loop
\* ran on (None when the handler did not get that far).
UResponse(status, llm, parsed) ==
    [op |-> "generate", status |-> status, llm |-> llm, parsed |-> parsed]

\* ------------------------------------------------------- clean_json_text
\* A text is a sequence of tokens: a token is one character, or one of the
\* chunks "fence" (three backticks), "json", "None", "True", "False", "null",
\* "true", "false".
\* "x" stands for a letter or digit, " " for a blank and the newline token
\* for a line break.
IsSpace(c) == c \in {" ", "\n"}

WordTokens == {"x", "json", "None", "True", "False", "null", "true", "false"}

RECURSIVE PyLStrip(_)
PyLStrip(s) == IF s # <<>> /\ IsSpace(Head(s)) THEN PyLStrip(Tail(s)) ELSE s

RECURSIVE PyRStrip(_)
PyRStrip(s) ==
    IF s # <<>> /\ IsSpace(s[Len(s)]) THEN PyRStrip(SubSeq(s, 1, Len(s) - 1)) ELSE s

\* text.strip().
PyStrip(s) == PyRStrip(PyLStrip(s))

\* text.find(tok) and text.rfind(tok), from 1; 0 for -1.
Find(s, tok) ==
    IF \E k \in 1..Len(s) : s[k] = tok
    THEN CHOOSE k \in 1..Len(s) : s[k] = tok /\ \A j \in 1..(k - 1) : s[j] # tok
    ELSE 0

RFind(s, tok) ==
    IF \E k \in 1..Len(s) : s[k] = tok
    THEN CHOOSE k \in 1..Len(s) : s[k] = tok /\ \A j \in (k + 1)..Len(s) : s[j] # tok
    ELSE 0

\* Where "```json" first starts, or 0.
FindJsonFence(s) ==
    LET at(k) == s[k] = "fence" /\ k < Len(s) /\ s[k + 1] = "json"
    IN  IF \E k \in 1..Len(s) : at(k)
        THEN CHOOSE k \in 1..Len(s) : at(k) /\ \A j \in 1..(k - 1) : ~at(j)
        ELSE 0

\* rest.split("```")[0].
UpToFence(rest) ==
    IF Find(rest, "fence") = 0 THEN rest ELSE SubSeq(rest, 1, Find(rest, "fence") - 1)

\* The first branch: text.split("```json")[1].split("```")[0].
JsonFenceBody(s) == UpToFence(SubSeq(s, FindJsonFence(s) + 2, Len(s)))

\* The second branch: the first group of ```(?:json)?\s*(.*?)\s*``` when a
\* closing fence follows, else text.split("```")[1].split("```")[0].
PlainFenceBody(s) ==
    LET rest == SubSeq(s, Find(s, "fence") + 1, Len(s))
    IN  IF Find(rest, "fence") # 0 THEN PyStrip(UpToFence(rest)) ELSE rest

\* The removal of the markdown code block.
UnFence(s) ==
    IF FindJsonFence(s) # 0 THEN JsonFenceBody(s)
    ELSE IF Find(s, "fence") # 0 THEN PlainFenceBody(s)
    ELSE s

\* The text from the first '{' with the closing bracket and brace appended
\* however many braces there are.
ExtractObjectGuess(s) ==
    Some(SubSeq(s, IF Find(s, "{") = 0 THEN 1 ELSE Find(s, "{"), Len(s))
            \o <<"\n", " ", " ", "]", "\n", "}">>)

\* The text from the first '{' to the last '}', closed with a bracket and a
\* brace when no '}' follows the '{'; None when there is no '{' (the early
\* return of the empty text).
ExtractObject(s) ==
    LET start == Find(s, "{")
        end == RFind(s, "}")
    IN  IF start = 0 THEN None
        ELSE IF end = 0 \/ end < start
             THEN Some(SubSeq(s, start, Len(s))
                          \o <<"\n", " ", " ", "]", "\n", "}">>)
             ELSE Some(SubSeq(s, start, end))

\* re.sub(r',\s*([\]}])', r'\1', text).
RECURSIVE RemoveTrailingCommas(_)
RemoveTrailingCommas(s) ==
    IF s = <<>> THEN <<>>
    ELSE LET rest == PyLStrip(Tail(s))
         IN  IF Head(s) = "," /\ rest # <<>> /\ Head(rest) \in {"]", "}"}
             THEN <<Head(rest)>> \o RemoveTrailingCommas(Tail(rest))
             ELSE <<Head(s)>> \o RemoveTrailingCommas(Tail(s))

\* The re.sub that replaces a // comment up to its line break by the line
\* break.
RECURSIVE RemoveComments(_)
RemoveComments(s) ==
    IF s = <<>> THEN <<>>
    ELSE IF /\ Len(s) >= 3 /\ s[1] = "/" /\ s[2] = "/"
            /\ Find(SubSeq(s, 3, Len(s)), "\n") # 0
         THEN <<"\n">> \o RemoveComments(
                  SubSeq(s, 3 + Find(SubSeq(s, 3, Len(s)), "\n"), Len(s)))
         ELSE <<Head(s)>> \o RemoveComments(Tail(s))

\* re.sub of one literal after a colon: r':\s*None' has no word boundary,
\* r':\s*\bTrue\b' and r':\s*\bFalse\b' have (bounded).
RECURSIVE FixLiteral(_, _, _, _)
FixLiteral(s, lit, repl, bounded) ==
    IF s = <<>> THEN <<>>
    ELSE LET rest == PyLStrip(Tail(s))
         IN  IF /\ Head(s) = ":" /\ rest # <<>> /\ Head(rest) = lit
                /\ bounded => (Len(rest) = 1 \/ rest[2] \notin WordTokens)
             THEN <<":", " ", repl>> \o FixLiteral(Tail(rest), lit, repl, bounded)
             ELSE <<Head(s)>> \o FixLiteral(Tail(s), lit, repl, bounded)

FixLiterals(s) ==
    FixLiteral(FixLiteral(FixLiteral(s, "None", "null", FALSE),
                          "True", "true", TRUE),
               "False", "false", TRUE)

clean_json_text(text) ==
    LET object == ExtractObject(PyStrip(UnFence(PyStrip(text))))
    IN  IF object = None THEN <<>>
        ELSE PyStrip(FixLiterals(RemoveComments(RemoveTrailingCommas(
                 object[1]))))

\* Prose around a document, the documents and the ways of fencing one.
Proses == { <<>>, <<"x", " ", "x", ":">>, <<"x", "{", "x", "}">>, <<"\n">> }

ValidDocs ==
    { <<"{", "x", ":", "x", "}">>,
      <<"{", "x", ":", "[", "{", "}", ",", " ", "True", "]", "}">> }

Docs ==
    ValidDocs \cup
    { <<>>, <<"[", "x", ",", "]">>, <<"{", "x", ":", "None", ",">>,
      <<"{", "x", ":", "[", "x", ",", ",", " ", "]", "}">>,
      <<"{", "x", ":", " ", "None", "x", ",", "x", ":", "True", "}">> }

Fencings == {"none", "json", "plain", "open"}

\* The reply text: the document in its fence between the two proses.
ReplyText(r) ==
    r.before
    \o ( CASE r.fencing = "none" -> <<" ">> \o r.body \o <<" ">>
           [] r.fencing = "json" -> <<"fence", "json", "\n">> \o r.body \o <<"\n", "fence">>
           [] r.fencing = "plain" -> <<"fence", "\n">> \o r.body \o <<"\n", "fence">>
           [] r.fencing = "open" -> <<"fence", "\n">> \o r.body )
    \o r.after

Replies == [before : Proses, fencing : Fencings, body : Docs, after : Proses]

NoReply == [before |-> <<>>, fencing |-> "none", body |-> <<>>, after |-> <<>>]

\* -------------------------------------------------- bulk_import_students
Schools == {1, 2}
Classrooms == {1, 2}
ClassroomSchool(c) == c

\* The years the clock shows.
Years == {2024, 2025}

DigitChars == <<"0", "1", "2", "3", "4", "5", "6", "7", "8", "9">>

\* str(n) for n >= 0.
RECURSIVE Decimal(_)
Decimal(n) ==
    IF n < 10 THEN <<DigitChars[n + 1]>>
    ELSE Decimal(n \div 10) \o <<DigitChars[(n % 10) + 1]>>

\* The format specs 03d and 05d: zeros in front up to the width.
ZeroPad(digits, width) ==
    IF Len(digits) >= width THEN digits
    ELSE [i \in 1..(width - Len(digits)) |-> "0"] \o digits

\* f"STU-{year}-{school_id:03d}-" of bulk_import_students.
IdPrefix(y, school_id) ==
    <<"S", "T", "U", "-">> \o Decimal(y) \o <<"-">>
    \o ZeroPad(Decimal(school_id), 3) \o <<"-">>

\* generate_student_id for the year its own reading of the clock gives.
generate_student_id(school_id, student_count, y) ==
    <<"S", "T", "U", "-">> \o Decimal(y) \o <<"-">>
    \o ZeroPad(Decimal(school_id), 3) \o <<"-">>
    \o ZeroPad(Decimal(student_count), 5)

\* LIKE 'prefix%'.
StartsWith(text, prefix) ==
    Len(text) >= Len(prefix) /\ SubSeq(text, 1, Len(prefix)) = prefix

\* student_id.split('-')[-1].
LastPart(student_id) == SubSeq(student_id, RFind(student_id, "-") + 1, Len(student_id))

\* int(...) of a part: None for the ValueError of a part that is no number.
RECURSIVE IntOfDigits(_)
IntOfDigits(part) ==
    IF part = <<>> THEN 0
    ELSE 10 * IntOfDigits(SubSeq(part, 1, Len(part) - 1))
         + (CHOOSE d \in 0..9 : DigitChars[d + 1] = part[Len(part)])

ParseInt(part) ==
    IF part # <<>> /\ \A i \in 1..Len(part) : \E d \in 1..10 : DigitChars[d] = part[i]
    THEN Some(IntOfDigits(part))
    ELSE None

\* The suffixes of the school's student ids that start with the prefix.
ExistingSuffixes(school_id, y) ==
    { ParseInt(LastPart(students[i].student_id))[1] :
        i \in { j \in 1..Len(students) :
                  /\ students[j].school = school_id
                  /\ StartsWith(students[j].student_id, IdPrefix(y, school_id))
                  /\ ParseInt(LastPart(students[j].student_id)) # None } }

\* Numbering by the number of the school's students instead of the maximum.
CountOfSchool(school_id, y) ==
    Cardinality({ j \in 1..Len(students) : students[j].school = school_id })

\* max_suffix: the largest suffix found, 0 without any.
MaxSuffix(school_id, y) == MaxOf(ExistingSuffixes(school_id, y))

\* The rows of one import: student idx (from 0) gets max_suffix + idx + 1.
\* The clock may pass into year y2 after the first k students.
ImportedRows(school_id, classroom_id, n, y, k, y2) ==
    [idx \in 1..n |->
        [school |-> school_id, classroom |-> classroom_id,
         student_id |-> generate_student_id(
                            school_id, MaxSuffix(school_id, y) + (idx - 1) + 1,
                            IF idx <= k THEN y ELSE y2)]]

\* The unique constraint on students.student_id fails the commit.
ViolatesUnique(rows) ==
    \/ \E i, j \in 1..Len(rows) : i # j /\ rows[i].student_id = rows[j].student_id
    \/ \E i \in 1..Len(rows), j \in 1..Len(students) :
          rows[i].student_id = students[j].student_id

NoSResp == [op |-> "none", status |-> 0, school |-> 0, created |-> 0]

SResponse(op, status, school_id, created) ==
    [op |-> op, status |-> status, school |-> school_id, created |-> created]

RemoveAt(rows, i) == SubSeq(rows, 1, i - 1) \o SubSeq(rows, i + 1, Len(rows))

\* ------------------------------------------------------------------ state
Init ==
    /\ backend \in {"sqlite", "postgresql"}
    /\ quiz_format \in QuizFormats
    /\ quiz_questions \in QuizTemplates
    /\ attempts \in InitialAttempts
    /\ req = [p \in Procs |-> IdleReq]
    /\ resp = NoResp
    /\ question_seq \in QuestionSeqStarts
    /\ iquizzes = <<>>
    /\ iquiz_formats = <<>>
    /\ iattempts = <<>>
    /\ iresp = NoIResp
    /\ isubmit = NoISubmit
    /\ google_api_key \in ApiKeys
    /\ user_google_api_key \in ApiKeys
    /\ uquizzes = <<>>
    /\ uresp = NoUResp
    /\ students = <<>>
    /\ year \in {y \in Years : y - 1 \notin Years}
    /\ sresp = NoSResp
    /\ reply \in Replies
    /\ cleaned = None

\* The school portal never reads the questions table, and the individual
\* portal never reads the school tables: each portal is explored from the
\* initial states that differ in what it reads.
SchoolInit ==
    /\ Init /\ question_seq = 0 /\ google_api_key = None /\ reply = NoReply
    /\ user_google_api_key = None /\ attempts = <<>>

\* The school portal with a classmate's attempt in the table.
ClassmateInit ==
    /\ Init /\ question_seq = 0 /\ google_api_key = None /\ reply = NoReply
    /\ user_google_api_key = None /\ attempts # <<>>

IndivInit ==
    /\ Init /\ backend = "sqlite" /\ quiz_format = "theory"
    /\ quiz_questions = None /\ reply = NoReply
    /\ google_api_key = Some("key") /\ user_google_api_key = None
    /\ attempts = <<>>

\* The individual portal with and without a stored key.
KeyInit ==
    /\ Init /\ backend = "sqlite" /\ quiz_format = "theory"
    /\ quiz_questions = None /\ reply = NoReply /\ question_seq = 0
    /\ user_google_api_key = None /\ attempts = <<>>

CleanInit ==
    /\ Init /\ backend = "sqlite" /\ quiz_format = "theory"
    /\ quiz_questions = None /\ question_seq = 0 /\ google_api_key = None
    /\ user_google_api_key = None /\ attempts = <<>>

\* The user portal with and without a stored key.
UserInit ==
    /\ Init /\ backend = "sqlite" /\ quiz_format = "theory"
    /\ quiz_questions = None /\ question_seq = 0 /\ google_api_key = None
    /\ reply = NoReply /\ attempts = <<>>

\* --------------------------------------------------------------- actions
\* generate_student_quiz up to the LLM call: the quiz lookup, the pending
\* attempt query and the early return that reuses its questions.
GenerateCheck(p, s, q) ==
    /\ req[p].pc = "idle"
    /\ UNCHANGED <<school, attempts, indivVars, cleanVars, userVars, importVars>>
    /\ IF QuizClassroom(q) # StudentClassroom(s)
       THEN /\ resp' = Response("generate", s, q, 404, 0, FALSE)
            /\ UNCHANGED req
       ELSE \E e \in ExistingAttemptChoices(s, q) :
              IF ReusesExisting(e)
              THEN /\ resp' = Response("generate", s, q, 200, e, FALSE)
                   /\ UNCHANGED req
              ELSE /\ req' = [req EXCEPT ![p] =
                          [IdleReq EXCEPT !.pc = "gen_llm", !.student = s,
                                          !.quiz = q, !.existing = e]]
                   /\ UNCHANGED resp

\* generate_student_quiz from the LLM call on: a failed call or parse is a 500
\* and writes nothing; otherwise the questions are stored and returned.
GenerateCommit(p) ==
    /\ req[p].pc = "gen_llm"
    /\ UNCHANGED <<school, indivVars, cleanVars, userVars, importVars>>
    /\ req' = [req EXCEPT ![p] = IdleReq]
    /\ LET s == req[p].student
           q == req[p].quiz
           e == req[p].existing
       IN  \E o \in GenOutcomes :
             /\ (GenerateReachesWrite(o) /\ e = 0) => Len(attempts) < MaxAttempts
             /\ attempts' = IF GenerateReachesWrite(o)
                            THEN GenerateWrite(s, q, e, o.questions)
                            ELSE attempts
             /\ resp' = IF o.kind # "ok"
                        THEN Response("generate", s, q, 500, 0, TRUE)
                        ELSE Response("generate", s, q, 200,
                                      IF e # 0 THEN e ELSE Len(attempts) + 1, TRUE)

\* submit_student_quiz up to the grading: the quiz lookup, the attempt query,
\* and for an objective quiz the local grading and the write.
SubmitCheck(p, s, q, answers) ==
    /\ req[p].pc = "idle"
    /\ UNCHANGED <<school, indivVars, cleanVars, userVars, importVars>>
    /\ IF QuizClassroom(q) # StudentClassroom(s)
       THEN /\ resp' = Response("submit", s, q, 404, 0, FALSE)
            /\ UNCHANGED <<req, attempts>>
       ELSE \E e \in LatestAttemptChoices(s, q) :
              LET questions == SubmitQuestions(e)
              IN  IF IsObjective
                  THEN /\ UtcNow <= MaxClock
                       /\ e = 0 => Len(attempts) < MaxAttempts
                       /\ attempts' = SubmitWrite(s, q, e, questions, answers,
                                          ObjectiveEvaluation(questions, answers))
                       /\ resp' = Response("submit", s, q, 200,
                                       IF e # 0 THEN e ELSE Len(attempts) + 1, FALSE)
                       /\ UNCHANGED req
                  ELSE /\ req' = [req EXCEPT ![p] =
                              [pc |-> "sub_llm", student |-> s, quiz |-> q,
                               existing |-> e, questions |-> questions,
                               answers |-> answers]]
                       /\ UNCHANGED <<resp, attempts>>

\* submit_student_quiz for an open-ended quiz from the LLM call on.  Any
\* exception of the try block is a 500 and writes nothing; with no results
\* total_obtained is still the int 0, whose is_integer() exists only from
\* Python 3.12 on (int_has_is_integer).
SubmitCommit(p) ==
    /\ req[p].pc = "sub_llm"
    /\ UNCHANGED <<school, indivVars, cleanVars, userVars, importVars>>
    /\ req' = [req EXCEPT ![p] = IdleReq]
    /\ LET s == req[p].student
           q == req[p].quiz
           e == req[p].existing
       IN  \E o \in EvalOutcomes, int_has_is_integer \in BOOLEAN :
             IF o.kind # "ok" \/ (o.results = <<>> /\ ~int_has_is_integer)
             THEN /\ resp' = Response("submit", s, q, 500, 0, TRUE)
                  /\ UNCHANGED attempts
             ELSE /\ UtcNow <= MaxClock
                  /\ e = 0 => Len(attempts) < MaxAttempts
                  /\ attempts' = SubmitWrite(s, q, e, req[p].questions, req[p].answers,
                                             AiEvaluation(o.results))
                  /\ resp' = Response("submit", s, q, 200,
                                  IF e # 0 THEN e ELSE Len(attempts) + 1, TRUE)

\* create_individual_quiz: the quiz is stored, then the questions the LLM
\* call gave, which may be none; the response is a 200 either way.  The call
\* is issued with ApiKeyToUse(google_api_key), whether a key is stored or not.
CreateIndividualQuiz(format, parsed) ==
    /\ Len(iquizzes) < MaxIQuizzes
    /\ iquizzes' = Append(iquizzes, QuestionRows(parsed, question_seq))
    /\ iquiz_formats' = Append(iquiz_formats, format)
    /\ question_seq' = question_seq + Len(parsed)
    /\ iresp' = IResponse("create", 200, 0, FALSE, TRUE)
    /\ UNCHANGED <<studentVars, cleanVars, userVars, importVars, iattempts, isubmit, google_api_key>>

\* start_individual_quiz: 404 for a quiz that does not exist, else a new
\* attempt without score or feedback.
StartIndividualQuizWithin(quiz_id, max_rows) ==
    /\ UNCHANGED <<studentVars, cleanVars, userVars, importVars, iquizzes, iquiz_formats, question_seq,
                   isubmit, google_api_key>>
    /\ IF quiz_id \notin 1..Len(iquizzes)
       THEN /\ iresp' = IResponse("start", 404, 0, FALSE, FALSE)
            /\ UNCHANGED iattempts
       ELSE /\ Len(iattempts) < max_rows
            /\ iattempts' = Append(iattempts,
                                   [quiz |-> quiz_id, score |-> None, feedback |-> None])
            /\ iresp' = IResponse("start", 200, Len(iattempts) + 1, FALSE, FALSE)

StartIndividualQuiz(quiz_id) == StartIndividualQuizWithin(quiz_id, MaxIAttempts)

\* submit_individual_attempt: 404 for an attempt that does not exist; else
\* the AI evaluation (asked for whatever the quiz format is, with the stored
\* key or "AI-dummy-key", so the LLM call is always issued), the fallback
\* grading when it gave no results, the correlation loop and the write of
\* score and feedback.
SubmitIndividualAttempt(attempt_id, answers) ==
    /\ UNCHANGED <<studentVars, cleanVars, userVars, importVars, iquizzes, iquiz_formats, question_seq,
                   google_api_key>>
    /\ IF attempt_id \notin 1..Len(iattempts)
       THEN /\ iresp' = IResponse("submit", 404, 0, FALSE, FALSE)
            /\ UNCHANGED <<iattempts, isubmit>>
       ELSE LET questions == iquizzes[iattempts[attempt_id].quiz]
                llm == IssuesGradingCall(ApiKeyToUse(google_api_key))
            IN  \E raw \in IF llm
                           THEN {None} \cup {Some(r) : r \in IEvalResults(questions)}
                           ELSE {Some(<<>>)} :
                  LET ai_results == EvaluateSubmissionAi(raw)
                      fallback == ai_results = <<>>
                      items == IF fallback THEN FallbackFeedback(questions, answers)
                               ELSE AiItems(ai_results)
                      score == IF fallback
                               THEN CountScore(CorrectCount(items), Len(questions))
                               ELSE DisplayScore(SumScores(items), Len(items))
                  IN  /\ iattempts' =
                            [iattempts EXCEPT
                               ![attempt_id].score = Some(score),
                               ![attempt_id].feedback =
                                     Some(Correlate(items, questions, answers))]
                      /\ isubmit' = ISubmit(answers, raw, ai_results)
                      /\ iresp' = IResponse("submit", 200, attempt_id, fallback, llm)

IndivNext ==
    \/ \E format \in QuizFormats, parsed \in IGenOutcomes :
          CreateIndividualQuiz(format, parsed)
    \/ \E quiz_id \in 1..(MaxIQuizzes + 1) : StartIndividualQuiz(quiz_id)
    \/ \E attempt_id \in 1..(MaxIAttempts + 1), answers \in IAnswerDicts :
          SubmitIndividualAttempt(attempt_id, answers)

IndivSpec == IndivInit /\ [][IndivNext]_vars

KeySpec == KeyInit /\ [][IndivNext]_vars

\* The individual portal with room for a second attempt.
StartsInit == IndivInit /\ question_seq = 0

StartsNext ==
    \/ \E format \in QuizFormats, parsed \in IGenOutcomes :
          CreateIndividualQuiz(format, parsed)
    \/ \E quiz_id \in 1..(MaxIQuizzes + 1) :
          StartIndividualQuizWithin(quiz_id, MaxIStarts)
    \/ \E attempt_id \in 1..(MaxIStarts + 1), answers \in IAnswerDicts :
          SubmitIndividualAttempt(attempt_id, answers)

StartsSpec == StartsInit /\ [][StartsNext]_vars

\* generate_quiz: 400 without a stored key; 500 when the LLM call or the
\* parse raises; else the Quiz row is committed and then the Question rows.
\* A KeyError of the storing loop is not caught: the request ends as a 500,
\* the Quiz row stays and the session's uncommitted rows are dropped.
GenerateQuiz(format) ==
    /\ UNCHANGED <<studentVars, indivVars, cleanVars, importVars,
                   user_google_api_key>>
    /\ IF user_google_api_key = None
       THEN /\ uresp' = UResponse(400, FALSE, None)
            /\ UNCHANGED uquizzes
       ELSE \E o \in UGenOutcomes :
              IF o.kind # "ok"
              THEN /\ uresp' = UResponse(500, TRUE, None)
                   /\ UNCHANGED uquizzes
              ELSE /\ Len(uquizzes) < MaxUQuizzes
                   /\ uquizzes' = Append(uquizzes,
                                      UQuiz(format, UserQuestionRows(o.questions)))
                   /\ uresp' = UResponse(
                          IF \E i \in 1..Len(o.questions) :
                                UserRowRaises(o.questions[i])
                          THEN 500 ELSE 200,
                          TRUE, Some(o.questions))

UserNext == \E format \in UQuizFormats : GenerateQuiz(format)

UserSpec == UserInit /\ [][UserNext]_vars

\* The school administration: the tables of the other portals are empty.
ImportInit ==
    /\ Init /\ backend = "sqlite" /\ quiz_format = "theory"
    /\ quiz_questions = None /\ question_seq = 0 /\ google_api_key = None
    /\ user_google_api_key = None /\ reply = NoReply /\ attempts = <<>>

\* bulk_import_students: 404 for a classroom of another school; else the
\* largest suffix of the school's ids of this year is found and the students
\* are numbered on from it; the commit fails as a whole (500) when an id
\* repeats.
BulkImportStudents(school_id, classroom_id, n) ==
    /\ UNCHANGED <<studentVars, indivVars, cleanVars, userVars>>
    /\ IF ClassroomSchool(classroom_id) # school_id
       THEN /\ sresp' = SResponse("import", 404, school_id, 0)
            /\ UNCHANGED <<students, year>>
       ELSE \E k \in 0..n, y2 \in {year} \cup ({year + 1} \cap Years) :
              LET rows == ImportedRows(school_id, classroom_id, n, year, k, y2)
              IN  /\ Len(students) + n <= MaxStudents
                  /\ MaxSuffix(school_id, year) + n <= MaxSuffixGiven
                  /\ year' = y2
                  /\ IF ViolatesUnique(rows)
                     THEN /\ sresp' = SResponse("import", 500, school_id, 0)
                          /\ UNCHANGED students
                     ELSE /\ sresp' = SResponse("import", 200, school_id, n)
                          /\ students' = students \o rows

\* delete_student: 404 for a student that does not exist or is of another
\* school; else the row is deleted.
DeleteStudent(school_id, i) ==
    /\ UNCHANGED <<studentVars, indivVars, cleanVars, userVars, year>>
    /\ IF i \notin 1..Len(students) \/ students[i].school # school_id
       THEN /\ sresp' = SResponse("delete", 404, school_id, 0)
            /\ UNCHANGED students
       ELSE /\ sresp' = SResponse("delete", 200, school_id, 0)
            /\ students' = RemoveAt(students, i)

\* The clock passes into the next year between two requests.
NewYear ==
    /\ year + 1 \in Years
    /\ year' = year + 1
    /\ UNCHANGED <<studentVars, indivVars, cleanVars, userVars, students, sresp>>

ImportNext ==
    \/ \E school_id \in Schools, classroom_id \in Classrooms, n \in 0..MaxImport :
          BulkImportStudents(school_id, classroom_id, n)
    \/ \E school_id \in Schools, i \in 1..(MaxStudents + 1) :
          DeleteStudent(school_id, i)
    \/ NewYear

ImportSpec == ImportInit /\ [][ImportNext]_vars

\* A call of clean_json_text on the reply text.
CleanJsonText ==
    /\ cleaned = None
    /\ cleaned' = Some(clean_json_text(ReplyText(reply)))
    /\ UNCHANGED <<studentVars, indivVars, userVars, importVars, reply>>

\* The next reply arrives.
NextReply(r) ==
    /\ cleaned # None
    /\ reply' = r
    /\ cleaned' = None
    /\ UNCHANGED <<studentVars, indivVars, userVars, importVars>>

CleanNext ==
    \/ CleanJsonText
    \/ \E r \in Replies : NextReply(r)

CleanSpec == CleanInit /\ [][CleanNext]_vars

StudentStep(p) ==
    \/ \E s \in Students, q \in Quizzes : GenerateCheck(p, s, q)
    \/ GenerateCommit(p)
    \/ \E s \in Students, q \in Quizzes, a \in AnswerDicts : SubmitCheck(p, s, q, a)
    \/ SubmitCommit(p)

\* Requests do not overlap: each is served to its response before the next.
SeqNext == StudentStep(1)

SeqSpec == SchoolInit /\ [][SeqNext]_vars

ClassmateSpec == ClassmateInit /\ [][SeqNext]_vars

\* Generate requests overlap: a second handler runs while one waits for the
\* LLM.
RaceNext ==
    \/ \E p \in Procs, s \in Students, q \in Quizzes : GenerateCheck(p, s, q)
    \/ \E p \in Procs : GenerateCommit(p)

RaceSpec == SchoolInit /\ [][RaceNext]_vars

\* The handlers are plain functions, which the server runs on worker threads:
\* generate and submit requests of a student overlap.
OverlapNext == \E p \in Procs : StudentStep(p)

OverlapSpec == SchoolInit /\ [][OverlapNext]_vars

\* ---------------------------------------------------------------- claims
\* The one (student, quiz) pair whose quiz the student can reach.
S1 == CHOOSE s \in Students : TRUE
Q1 == CHOOSE q \in Quizzes : QuizClassroom(q) = StudentClassroom(S1)

\* The step returns a generate response for (S1, Q1) from slot 1.
GenerateReturns ==
    /\ req'[1].pc = "idle"
    /\ resp'.op = "generate" /\ resp'.student = S1 /\ resp'.quiz = Q1

\* The step returns a 200 of submit_student_quiz for (S1, Q1) from slot 1.
SubmitSucceeds ==
    /\ req'[1].pc = "idle"
    /\ attempts' # attempts
    /\ resp'.op = "submit" /\ resp'.student = S1 /\ resp'.quiz = Q1
    /\ resp'.status = 200

IsCompletedRow(r) ==
    /\ r.answers # None /\ r.score # None
    /\ r.feedback # None /\ r.completed_at # None

\* C1: two successive successful generate calls for one (student, quiz), with
\* no submit between them, return the same attempt id and the same questions,
\* and exactly one pending attempt exists for the pair afterwards.
C1_GenerateIdempotent ==
    [][ ( /\ resp.op = "generate" /\ resp.status = 200
          /\ resp.student = S1 /\ resp.quiz = Q1
          /\ GenerateReturns /\ resp'.status = 200 )
        => ( /\ resp'.attempt_id = resp.attempt_id
             /\ attempts'[resp'.attempt_id].questions
                    = attempts[resp.attempt_id].questions
             /\ Cardinality(Pending(S1, Q1)') = 1 ) ]_vars

C3_CompletedAppendOnly ==
    [][ \A i \in 1..Len(attempts) :
          attempts[i].answers # None =>
            /\ attempts'[i].answers = attempts[i].answers
            /\ attempts'[i].score = attempts[i].score
            /\ attempts'[i].feedback = attempts[i].feedback
            /\ attempts'[i].completed_at = attempts[i].completed_at ]_vars

C5_InsertsWithoutRecheck ==
    [][ \A p \in Procs :
          ( /\ req[p].pc = "gen_llm" /\ req[p].existing = 0
            /\ req'[p].pc = "idle" /\ resp'.status = 200 )
          => ( /\ Len(attempts') = Len(attempts) + 1
               /\ attempts'[Len(attempts')].answers = None
               /\ resp'.llm
               /\ \A i \in 1..Len(attempts) : attempts'[i] = attempts[i] ) ]_vars

C5_Witness ==
    /\ Cardinality(Pending(S1, Q1)) >= 2
    /\ \A p \in Procs : req[p].pc = "idle"
    /\ resp.op = "generate" /\ resp.llm

\* C6: when every attempt of the pair is completed, a generate request does
\* not return at once; when it succeeds it adds a new pending attempt, which
\* it returns, and leaves every existing attempt as it was.
C6_CompletedNeverReused ==
    [][ ( /\ Matching(S1, Q1) # {} /\ Pending(S1, Q1) = {}
          /\ GenerateReturns /\ resp'.status = 200 )
        => ( /\ req[1].pc = "gen_llm"
             /\ resp'.llm
             /\ Len(attempts') = Len(attempts) + 1
             /\ resp'.attempt_id = Len(attempts')
             /\ attempts'[Len(attempts')].student = S1
             /\ attempts'[Len(attempts')].quiz = Q1
             /\ attempts'[Len(attempts')].answers = None
             /\ attempts'[Len(attempts')].completed_at = None
             /\ \E o \in GenOutcomes :
                  o.kind = "ok" /\ attempts'[Len(attempts')].questions = o.questions
             /\ \A i \in 1..Len(attempts) : attempts'[i] = attempts[i] ) ]_vars

C6_Witness ==
    /\ resp.op = "generate" /\ resp.status = 200 /\ resp.llm
    /\ Completed(S1, Q1) # {}
    /\ resp.attempt_id \in Pending(S1, Q1)
    /\ \E i \in Completed(S1, Q1) :
         /\ attempts[i].questions # <<>>
         /\ attempts[resp.attempt_id].questions # <<>>
         /\ attempts[i].questions # attempts[resp.attempt_id].questions

\* C7: with a completed attempt and a pending one for the pair, a successful
\* submit completes the pending attempt and leaves none pending.
C7_SubmitCompletesPending ==
    [][ ( /\ Pending(S1, Q1) # {} /\ Completed(S1, Q1) # {}
          /\ SubmitSucceeds )
        => ( /\ resp'.attempt_id \in Pending(S1, Q1)
             /\ IsCompletedRow(attempts'[resp'.attempt_id])
             /\ Pending(S1, Q1)' = {} ) ]_vars

\* C8: with no attempt for the pair, a successful submit adds exactly one
\* attempt, already completed, holding the quiz template's questions and, for
\* an objective quiz, graded against them; no attempt of the pair is pending.
C8_SubmitWithoutAttempt ==
    [][ ( Matching(S1, Q1) = {} /\ SubmitSucceeds )
        => ( /\ Len(attempts') = Len(attempts) + 1
             /\ resp'.attempt_id = Len(attempts')
             /\ \A i \in 1..Len(attempts) : attempts'[i] = attempts[i]
             /\ LET r == attempts'[Len(attempts')]
                    template == IF quiz_questions = None THEN <<>>
                                ELSE quiz_questions[1]
                IN  /\ r.student = S1 /\ r.quiz = Q1
                    /\ IsCompletedRow(r)
                    /\ r.questions = template
                    /\ IsObjective =>
                         r.feedback = Some(ObjectiveResults(template, r.answers[1]))
             /\ Pending(S1, Q1)' = {} ) ]_vars

C8_Witness ==
    /\ Len(attempts) = 1
    /\ quiz_questions # None
    /\ IsCompletedRow(attempts[1])
    /\ attempts[1].questions = quiz_questions[1]
    /\ attempts[1].score = Some(ScoreString(200, 2, TRUE))
    /\ resp.op = "submit" /\ resp.status = 200 /\ resp.attempt_id = 1

\* C9: a submit for an open-ended quiz that reaches the grading LLM call is
\* always answered with a 200, the attempt completed with the submitted
\* answers and, when there are stored questions, a non-empty feedback.
C9_GradingNeverFails ==
    [][ ( /\ req[1].pc = "sub_llm" /\ req'[1].pc = "idle" )
        => ( /\ resp'.op = "submit" /\ resp'.status = 200
             /\ resp'.attempt_id \in 1..Len(attempts')
             /\ LET r == attempts'[resp'.attempt_id]
                IN  /\ IsCompletedRow(r)
                    /\ r.answers = Some(req[1].answers)
                    /\ req[1].questions # <<>> => r.feedback # Some(<<>>) ) ]_vars

\* C10: when the AI evaluation gave no results, the feedback stored on the
\* attempt is not empty and has one entry per stored question of the quiz, in
\* question order, each with score 1.0 or 0.0.
C10_FallbackCoversEveryQuestion ==
    ( iresp.op = "submit" /\ iresp.status = 200 /\ iresp.fallback )
    => LET a == iattempts[iresp.attempt_id]
           qs == iquizzes[a.quiz]
           fb == a.feedback[1]
       IN  /\ a.feedback # None
           /\ Len(fb) > 0
           /\ Len(fb) = Len(qs)
           /\ \A i \in 1..Len(fb) :
                /\ fb[i].id = qs[i].id
                /\ fb[i].score \in {Some(0), Some(100)}

\* C11: grading a submission for a quiz of an objective-like format makes no
\* LLM call and does not fail, in the student portal and in the individual
\* portal.
C11_ObjectiveGradingIsLocal ==
    [][ /\ ( /\ IsObjective
             /\ req[1].pc = "idle"
             /\ resp'.op = "submit" /\ resp'.student = S1 /\ resp'.quiz = Q1
             /\ resp' # resp )
          => ( resp'.status = 200 /\ ~resp'.llm /\ req'[1].pc = "idle" )
        /\ ( /\ iresp'.op = "submit" /\ iresp'.attempt_id # 0
             /\ FormatLower(iquiz_formats[iattempts[iresp'.attempt_id].quiz])
                    \in ObjectiveFormats )
          => ( iresp'.status = 200 /\ ~iresp'.llm ) ]_vars

\* The submitted answer for question id i, trimmed and case-folded, equals
\* the correct answer trimmed and case-folded.
AnswerEquals(answers, i, correct_answer) ==
    /\ answers[i] # None
    /\ Lower(Strip(answers[i][1])) = Lower(Strip(correct_answer))

\* The entries of rs whose score is 1.0.
FullMarks(rs) == {i \in 1..Len(rs) : rs[i].score = Some(100)}

\* C12: on the objective path every stored question has one entry, whose
\* score is 1.0 exactly when the submitted answer equals the correct answer
\* once both are trimmed and case-folded and 0.0 otherwise, and the score is
\* (number of 1.0 entries)/(number of questions).
C12_ObjectiveExactMatch ==
    IsObjective =>
      \A k \in 1..Len(attempts) :
        attempts[k].answers # None =>
          LET r == attempts[k]
              fb == r.feedback[1]
          IN  /\ Len(fb) = Len(r.questions)
              /\ \A i \in 1..Len(fb) :
                   /\ fb[i].id = r.questions[i].id
                   /\ fb[i].score =
                        IF AnswerEquals(r.answers[1], r.questions[i].id,
                                        r.questions[i].correct_answer)
                        THEN Some(100) ELSE Some(0)
              /\ r.score = Some(ScoreString(100 * Cardinality(FullMarks(fb)),
                                             Len(r.questions), TRUE))

\* The last individual-portal request was a grading that stored a feedback.
IGraded == iresp.op = "submit" /\ iresp.status = 200

\* The questions of the quiz of the attempt just graded, and its feedback.
GradedQuestions == iquizzes[iattempts[iresp.attempt_id].quiz]
GradedFeedback == iattempts[iresp.attempt_id].feedback[1]

StoredIds(qs) == {qs[i].id : i \in 1..Len(qs)}

\* The grader numbered its entries 1..N and no such number is a stored id.
Renumbered(rs, qs) ==
    /\ rs # <<>>
    /\ \A i \in 1..Len(rs) : rs[i].id = i /\ i \notin StoredIds(qs)

C14_NoForeignIds ==
    \A k \in 1..Len(iattempts) :
      iattempts[k].feedback # None =>
        \A i \in 1..Len(iattempts[k].feedback[1]) :
          iattempts[k].feedback[1][i].id \in StoredIds(iquizzes[iattempts[k].quiz])

\* C15: the feedback stored on an attempt holds at most one entry per
\* question: no two entries carry the same id.
C15_OneEntryPerQuestion ==
    \A k \in 1..Len(iattempts) :
      iattempts[k].feedback # None =>
        LET fb == iattempts[k].feedback[1]
        IN  \A i, j \in 1..Len(fb) : fb[i].id = fb[j].id => i = j

C18_ScoreWithinUnit ==
    /\ \A k \in 1..Len(iattempts) :
         iattempts[k].feedback # None =>
           /\ \A i \in 1..Len(iattempts[k].feedback[1]) :
                iattempts[k].feedback[1][i].score[1] \in 0..100
           /\ iattempts[k].score[1].obtained <= 100 * iattempts[k].score[1].total
    /\ \A k \in 1..Len(attempts) :
         attempts[k].feedback # None =>
           /\ \A i \in 1..Len(attempts[k].feedback[1]) :
                attempts[k].feedback[1][i].score[1] \in 0..100
           /\ attempts[k].score[1].obtained <= 100 * attempts[k].score[1].total

\* C19: for a text without any '{', clean_json_text returns the empty
\* string.
C19_NoBraceGivesEmpty ==
    ( cleaned # None /\ Find(ReplyText(reply), "{") = 0 ) => cleaned = Some(<<>>)

C19_Witness ==
    /\ cleaned = Some(<<>>)
    /\ Find(ReplyText(reply), "{") = 0
    /\ Find(ReplyText(reply), "fence") # 0
    /\ reply.body = <<"[", "x", ",", "]">>
    /\ reply.after # <<>>

\* C20: for a valid document, clean_json_text of the document in a code
\* fence and/or between prose returns what it returns for the document
\* alone, whatever the prose holds.
C20_WrappingIsTransparent ==
    ( cleaned # None /\ reply.body \in ValidDocs )
    => cleaned = Some(clean_json_text(reply.body))

\* C21: the trailing-comma repair is idempotent: on every reply text that
\* clean_json_text has processed, applying the repair twice gives the same
\* text as applying it once, runs of several commas before a closing bracket
\* included.
C21_TrailingCommaIdempotent ==
    cleaned # None =>
        LET once == RemoveTrailingCommas(ReplyText(reply))
        IN  RemoveTrailingCommas(once) = once

\* The literal repair as C22 describes it: each of the three literals is
\* rewritten only as a whole token after a colon.
FixWholeLiterals(s) ==
    FixLiteral(FixLiteral(FixLiteral(s, "None", "null", TRUE),
                          "True", "true", TRUE),
               "False", "false", TRUE)

\* C22: the literal repair rewrites None, True and False only where they
\* stand as whole tokens directly after a colon: on every reply text that
\* clean_json_text has processed it agrees with the whole-token rewrite, so a
\* longer word that starts with a literal is left unchanged.
C22_LiteralsOnlyAsWholeTokens ==
    cleaned # None =>
        FixLiterals(ReplyText(reply)) = FixWholeLiterals(ReplyText(reply))

\* C23: a generation that yields no questions (the LLM call or the parse
\* failed, or the document held none) is a failure for the caller: no quiz
\* with an empty question set is ever stored, and a create request answered
\* with 200 has stored a quiz that has questions.
C23_EmptyGenerationIsFailure ==
    /\ \A i \in 1..Len(iquizzes) : iquizzes[i] # <<>>
    /\ (iresp.op = "create" /\ iresp.status = 200) =>
           (iquizzes # <<>> /\ iquizzes[Len(iquizzes)] # <<>>)

\* C24: with no API key stored, an operation that needs an LLM call reports
\* the missing credential and issues no LLM call: a create or submit request
\* that reached the key lookup is answered with 400 and has made no call.
C24_MissingKeyReportedBeforeCall ==
    ( /\ google_api_key = None
      /\ iresp.op \in {"create", "submit"}
      /\ iresp.status # 404 )
    => (iresp.status = 400 /\ ~iresp.llm)

\* C25: a parsed question entry that lacks options, correct_answer or the
\* question text is stored without an exception: generate_quiz answers 200,
\* stores one row per entry of the response, and a row has null options, an
\* empty correct_answer and some text where the entry lacks the key.
C25_MissingFieldsAreDefaulted ==
    ( uresp.op = "generate" /\ uresp.parsed # None ) =>
        LET parsed == uresp.parsed[1]
            rows == uquizzes[Len(uquizzes)].questions
        IN  /\ uresp.status = 200
            /\ Len(rows) = Len(parsed)
            /\ \A i \in 1..Len(parsed) :
                  /\ "options" \notin DOMAIN parsed[i] => rows[i].options = None
                  /\ "correct_answer" \notin DOMAIN parsed[i]
                        => rows[i].correct_answer = ""
                  /\ rows[i].text # None

\* C26: in the individual portal at most one pending (unscored) attempt
\* exists per quiz of the individual, whatever start and submit requests were
\* served: a start for a quiz with an unsubmitted attempt adds no second one.
C26_AtMostOnePendingIndividual ==
    \A q \in 1..Len(iquizzes) :
        Cardinality({ i \in 1..Len(iattempts) :
                        iattempts[i].quiz = q /\ iattempts[i].score = None }) <= 1

C28_ErrorLeavesAttempts ==
    [][ resp'.status \in {404, 500} => attempts' = attempts ]_vars

\* An LLM failure was answered with 500 while the student had an attempt.
C28_Witness ==
    /\ resp.status = 500 /\ resp.llm
    /\ \E i \in 1..Len(attempts) :
          attempts[i].student = resp.student /\ attempts[i].quiz = resp.quiz

\* C29: every attempt links a student to a quiz of the student's own
\* classroom; a request for a quiz of another classroom is answered 404 and
\* changes no attempt; and a request touches only attempts of the student who
\* sent it: the attempt it returns is that student's, and it changes no
\* attempt of anyone else.
C29_ClassroomIsolation ==
    /\ [](\A i \in 1..Len(attempts) :
            QuizClassroom(attempts[i].quiz) = StudentClassroom(attempts[i].student))
    /\ []( /\ (resp.op # "none"
                /\ QuizClassroom(resp.quiz) # StudentClassroom(resp.student))
                  => resp.status = 404
           /\ resp.attempt_id # 0 =>
                  attempts[resp.attempt_id].student = resp.student )
    /\ [][ /\ resp'.status = 404 => attempts' = attempts
           /\ \A i \in 1..Len(attempts) :
                 attempts[i].student \notin Students => attempts'[i] = attempts[i]
         ]_vars

\* A student's submit was served and stored while a classmate's attempt for
\* the same quiz is in the table.
C29_Witness ==
    /\ resp.op = "submit" /\ resp.status = 200
    /\ \E i, j \in 1..Len(attempts) :
          /\ attempts[i].student \in Classmates /\ attempts[i].quiz = resp.quiz
          /\ attempts[j].student = resp.student /\ j = resp.attempt_id

\* The school-and-year part and the number at the end of a student id.
IdYearPart(student_id) == SubSeq(student_id, 1, RFind(student_id, "-"))
IdSuffix(student_id) == IntOfDigits(LastPart(student_id))

\* C30: after any sequence of non-overlapping bulk imports and deletions all
\* students have pairwise distinct student_id values; an import never fails
\* on a repeated id; each imported student gets a suffix greater than every
\* suffix there was for that school and year, and the suffixes of one import
\* are consecutive.
C30_StudentIdsDistinct ==
    /\ [](\A i, j \in 1..Len(students) :
             i # j => students[i].student_id # students[j].student_id)
    /\ [](sresp.status # 500)
    /\ [][ (sresp'.op = "import" /\ Len(students') > Len(students)) =>
             \A j \in (Len(students) + 1)..Len(students') :
                 /\ \A i \in 1..Len(students) :
                       ( /\ students[i].school = students'[j].school
                         /\ IdYearPart(students[i].student_id)
                              = IdYearPart(students'[j].student_id) )
                       => IdSuffix(students'[j].student_id)
                            > IdSuffix(students[i].student_id)
                 /\ j > Len(students) + 1 =>
                       IdSuffix(students'[j].student_id)
                         = IdSuffix(students'[j - 1].student_id) + 1
         ]_vars

\* An import of two students was served for a school that has a student
\* left and had one with a smaller suffix deleted.
C30_Witness ==
    /\ sresp.op = "import" /\ sresp.status = 200 /\ sresp.created = 2
    /\ Len(students) = 3
    /\ \A i \in 1..3 : students[i].school = sresp.school
    /\ IdSuffix(students[1].student_id) = 2
    /\ IdYearPart(students[1].student_id) = IdYearPart(students[2].student_id)

====
